---- MODULE Spec2Model ----
(***************************************************************************)
(* PricingMonteCarloSimulation (src/monte_carlo_simulation.py) as a state  *)
(* machine: the object's fields, the process-wide random generator, and    *)
(* one action per public method.                                           *)
(*                                                                         *)
(* Numbers are exact rationals <<num, den>> in lowest terms with den > 0;  *)
(* <<0, 0>> is NaN and <<1, 0>> is +inf.  Floating-point rounding is not   *)
(* modelled; a standard deviation is carried at whole-unit precision.      *)
(***************************************************************************)
EXTENDS Integers, Sequences, FiniteSets, TLC

VARIABLES data, scipy, distributions, simulation_results, rng, ret, calls

vars == <<data, scipy, distributions, simulation_results, rng, ret, calls>>

---------------------------------------------------------------------------
(* Bounds of the model.                                                    *)

\* Largest n_simulations a call is given.
MaxN == 2

\* Period of the modelled generator: its states are 0 .. GenPeriod - 1.
GenPeriod == 3

\* Number of method calls made on one object.
MaxCalls == 3

---------------------------------------------------------------------------
(* Rational arithmetic.                                                    *)

NaN == <<0, 0>>

Inf == <<1, 0>>

Abs(i) == IF i < 0 THEN -i ELSE i

RECURSIVE GCD(_, _)
GCD(a, b) == IF b = 0 THEN a ELSE GCD(b, a % b)

IsNaN(a) == a[2] = 0 /\ a[1] = 0

IsFinite(a) == a[2] # 0

Q(n, d) ==
    IF d = 0 THEN (IF n > 0 THEN Inf ELSE NaN)
    ELSE LET g == GCD(Abs(n), Abs(d))
             s == IF d < 0 THEN -1 ELSE 1
         IN  <<(s * n) \div g, (s * d) \div g>>

R(i) == <<i, 1>>

RAdd(a, b) ==
    IF IsFinite(a) /\ IsFinite(b)
    THEN LET g == GCD(a[2], b[2])
         IN  Q(a[1] * (b[2] \div g) + b[1] * (a[2] \div g), a[2] * (b[2] \div g))
    ELSE NaN

RNeg(a) == IF IsFinite(a) THEN <<-a[1], a[2]>> ELSE NaN

RSub(a, b) == RAdd(a, RNeg(b))

RMul(a, b) ==
    IF IsFinite(a) /\ IsFinite(b)
    THEN LET x == Q(a[1], b[2])
             y == Q(b[1], a[2])
         IN  <<x[1] * y[1], x[2] * y[2]>>
    ELSE NaN

RDiv(a, b) ==
    IF IsFinite(a) /\ IsFinite(b) /\ b[1] # 0
    THEN RMul(a, Q(b[2], b[1]))
    ELSE NaN

\* The sign of b - a for finite a and b.
Sign(a, b) ==
    LET g == GCD(a[2], b[2])
        d == b[1] * (a[2] \div g) - a[1] * (b[2] \div g)
    IN  IF d > 0 THEN 1 ELSE IF d < 0 THEN -1 ELSE 0

\* a < b as floating point compares: FALSE when either side is NaN.
RLt(a, b) ==
    IF IsNaN(a) \/ IsNaN(b) THEN FALSE
    ELSE IF ~IsFinite(a) THEN FALSE
    ELSE IF ~IsFinite(b) THEN TRUE
    ELSE Sign(a, b) > 0

RLe(a, b) ==
    IF IsNaN(a) \/ IsNaN(b) THEN FALSE
    ELSE IF ~IsFinite(b) THEN TRUE
    ELSE IF ~IsFinite(a) THEN FALSE
    ELSE Sign(a, b) >= 0

\* The integer part of a finite rational, rounded toward zero.
Trunc(a) == IF a[1] >= 0 THEN a[1] \div a[2] ELSE -((-a[1]) \div a[2])

\* The largest i in lo .. hi with i * i <= k.
RECURSIVE SqrtBetween(_, _, _)
SqrtBetween(k, lo, hi) ==
    IF lo >= hi THEN lo
    ELSE LET mid == (lo + hi + 1) \div 2
         IN  IF mid * mid <= k THEN SqrtBetween(k, mid, hi)
             ELSE SqrtBetween(k, lo, mid - 1)

ISqrt(k) == SqrtBetween(k, 0, IF k < 40000 THEN k ELSE 40000)

\* Square root, rounded down to a whole number.
RSqrt(a) ==
    IF ~IsFinite(a) \/ a[1] < 0 THEN NaN
    ELSE R(ISqrt(Trunc(a)))

\* A function with domain 1..n as an explicit sequence, and a function on
\* strings as an explicit record: the same value, evaluated once.
AsSeq(f) == f \o <<>>

AsMap(f) == f @@ <<>>

---------------------------------------------------------------------------
(* Series helpers (pandas.Series reductions over a sequence of rationals). *)

RECURSIVE SumSeq(_)
SumSeq(xs) == IF xs = <<>> THEN R(0) ELSE RAdd(Head(xs), SumSeq(Tail(xs)))

IsNotNaN(x) == ~IsNaN(x)

DropNa(xs) == SelectSeq(xs, IsNotNaN)

\* Series.mean(): NaN on an empty series.
Mean(xs) ==
    LET ys == DropNa(xs)
    IN  IF ys = <<>> THEN NaN ELSE RDiv(SumSeq(ys), R(Len(ys)))

\* Squared deviations from m, each deviation taken at whole-unit precision.
SqDev(xs, m) ==
    AsSeq([i \in 1..Len(xs) |->
              LET d == Trunc(RSub(xs[i], m)) IN R(d * d)])

\* Series.std(): sample standard deviation (ddof = 1), NaN below two values.
Std(xs) ==
    LET ys == DropNa(xs)
    IN  IF Len(ys) < 2 THEN NaN
        ELSE RSqrt(RDiv(SumSeq(SqDev(ys, Mean(ys))), R(Len(ys) - 1)))

\* Population standard deviation (ddof = 0), the scale of a normal MLE.
PopStd(xs) ==
    IF xs = <<>> THEN NaN
    ELSE RSqrt(RDiv(SumSeq(SqDev(xs, Mean(xs))), R(Len(xs))))

RECURSIVE MinSeq(_)
MinSeq(xs) ==
    IF xs = <<>> THEN NaN
    ELSE IF Len(xs) = 1 THEN xs[1]
    ELSE LET m == MinSeq(Tail(xs)) IN IF RLe(Head(xs), m) THEN Head(xs) ELSE m

RECURSIVE MaxSeq(_)
MaxSeq(xs) ==
    IF xs = <<>> THEN NaN
    ELSE IF Len(xs) = 1 THEN xs[1]
    ELSE LET m == MaxSeq(Tail(xs)) IN IF RLe(m, Head(xs)) THEN Head(xs) ELSE m

\* Insert x into the ascending sequence xs.
RECURSIVE Insert(_, _)
Insert(x, xs) ==
    IF xs = <<>> THEN <<x>>
    ELSE IF RLe(x, Head(xs)) THEN <<x>> \o xs
    ELSE <<Head(xs)>> \o Insert(x, Tail(xs))

RECURSIVE Sorted(_)
Sorted(xs) == IF xs = <<>> THEN <<>> ELSE Insert(Head(xs), Sorted(Tail(xs)))

---------------------------------------------------------------------------
(* The historical dataset and the columns of the simulation.               *)

\* self.numeric_columns, in the order the fitter walks them.
numeric_columns ==
    <<"Material_Cost", "Labor_Cost", "Profit_Rate", "Discount_or_Markup",
      "Total_Estimate">>

Components == {"Material_Cost", "Labor_Cost", "Profit_Rate", "Discount_or_Markup"}

Derived == "Total_Estimate_Calculated"

Range(f) == {f[x] : x \in DOMAIN f}

SeqOfInts(xs) == AsSeq([i \in 1..Len(xs) |-> R(xs[i])])

\* A cleaned dataset with all five numeric columns, three projects.
FullData ==
    [Material_Cost      |-> SeqOfInts(<<40, 80, 120>>),
     Labor_Cost         |-> SeqOfInts(<<20, 40, 60>>),
     Profit_Rate        |-> SeqOfInts(<<0, 100, 200>>),
     Discount_or_Markup |-> SeqOfInts(<<-20, 0, 20>>),
     Total_Estimate     |-> SeqOfInts(<<120, 240, 360>>)]

\* The column sets of the datasets the model is run on.
ColumnSets ==
    {Range(numeric_columns),
     Components,
     Range(numeric_columns) \ {"Labor_Cost"}}

\* The same projects with Discount_or_Markup missing for all but the first:
\* dropna() leaves that column a single value.
SparseData ==
    [FullData EXCEPT !["Discount_or_Markup"] = <<R(-20), NaN, NaN>>]

Datasets ==
    {AsMap([c \in cs |-> FullData[c]]) : cs \in ColumnSets} \cup {SparseData}

---------------------------------------------------------------------------
(* scipy: what fitting, the KS test and rvs return.  They are functions of *)
(* their arguments; the model fixes them by a profile chosen at the start. *)

\* Largest profile number.
MaxProfile == 1

Families == {"norm", "lognorm", "gamma", "beta", "uniform"}

Ks(k) == [raises |-> "no", ks |-> Q(k, 10)]

FitRaises == [raises |-> "fit", ks |-> NaN]

KsRaises == [raises |-> "kstest", ks |-> NaN]

\* One row per kind of column: the outcome of fit + kstest for each family.
KSRows ==
    << [norm |-> Ks(1), lognorm |-> Ks(2), gamma |-> Ks(3), beta |-> Ks(4),
        uniform |-> Ks(5)],
       [norm |-> Ks(3), lognorm |-> Ks(1), gamma |-> Ks(1), beta |-> Ks(4),
        uniform |-> Ks(5)],
       [norm |-> FitRaises, lognorm |-> FitRaises, gamma |-> KsRaises,
        beta |-> KsRaises, uniform |-> Ks(5)],
       [norm |-> FitRaises, lognorm |-> FitRaises, gamma |-> FitRaises,
        beta |-> FitRaises, uniform |-> KsRaises],
       [norm |-> Ks(2), lognorm |-> Ks(3), gamma |-> Ks(2), beta |-> Ks(1),
        uniform |-> Ks(4)] >>

ColIndex(col) == CHOOSE i \in 1..Len(numeric_columns) : numeric_columns[i] = col

\* Outcome of fitting family fam to column col and testing the fit.
FitOutcome(col, fam) ==
    KSRows[((ColIndex(col) - 1 + scipy.profile) % Len(KSRows)) + 1][fam]

\* stats.norm.fit: maximum likelihood (mean, population std).
NormFit(xs) == <<Mean(xs), PopStd(xs)>>

\* stats.lognorm.fit: (shape, loc, scale).
LognormFit(xs) == <<R(1), R(0), Mean(xs)>>

\* stats.gamma.fit: (shape, loc, scale).
GammaFit(xs) == <<R(2), R(0), RDiv(Mean(xs), R(2))>>

\* stats.beta.fit on the normalised data: (a, b, loc, scale), loc and scale free.
BetaFit(xs) ==
    IF scipy.profile % 2 = 0 THEN <<R(1), R(1), R(0), R(1)>>
    ELSE <<R(1), R(1), Q(-1, 2), R(2)>>

\* Whether scipy's rvs of the family raises, drawing from generator state g:
\* a numerical failure of some draws, not of others.
RvsRaises(fam, g) == fam = "lognorm" /\ scipy.profile % 2 = 1 /\ g = 0

\* No test of the data's sign: C13 depends on the tests of lines 78 and 84.
AllPositiveUnchecked(xs) == TRUE

\* (data_col > 0).all()
AllPositive(xs) == \A i \in 1..Len(xs) : RLt(R(0), xs[i])

\* (data_col - min) / (max - min)
Normalized(xs) ==
    AsSeq([i \in 1..Len(xs) |->
              RDiv(RSub(xs[i], MinSeq(xs)), RSub(MaxSeq(xs), MinSeq(xs)))])

---------------------------------------------------------------------------
(* fit_distributions                                                       *)

None == "None"

\* test_distributions when the caller gives none.
DefaultDistributions == <<"norm", "lognorm", "gamma", "beta", "uniform">>

\* The candidate lists callers pass (None stands for the default).
CandidateLists ==
    {<<None>>,
     <<"gamma", "lognorm">>,
     <<"foo", "norm">>}

\* The function's local variables at the start of the call: params and
\* ks_stat are unbound, and reading an unbound name raises.
FreshLocals == [params |-> <<>>, params_bound |-> FALSE,
                ks_stat |-> NaN, ks_bound |-> FALSE, dist_name |-> None]

\* A candidate replacing the best so far when its statistic is as small:
\* C30 depends on the strict < of line 96.
KeepBestOrEqual(st) ==
    IF ~st.ks_bound THEN st
    ELSE IF RLe(st.ks_stat, st.best_ks_stat)
         THEN [st EXCEPT !.best_ks_stat = st.ks_stat,
                         !.best_dist = st.dist_name,
                         !.best_params = st.params]
         ELSE st

\* The latest family with a KS statistic kept, whatever the statistic: C18
\* depends on the comparison of line 96.
KeepLast(st) ==
    IF ~st.ks_bound THEN st
    ELSE [st EXCEPT !.best_ks_stat = st.ks_stat,
                    !.best_dist = st.dist_name,
                    !.best_params = st.params]

\* if ks_stat < best_ks_stat: best_* = ...   (lines 96-99)
KeepBest(st) ==
    IF ~st.ks_bound THEN st
    ELSE IF RLt(st.ks_stat, st.best_ks_stat)
         THEN [st EXCEPT !.best_ks_stat = st.ks_stat,
                         !.best_dist = st.dist_name,
                         !.best_params = st.params]
         ELSE st

\* The body of the try for one candidate family (lines 72-102): st carries the
\* locals params, ks_stat and the best_* triple.
TryFamily(col, data_col, dist_name, st0) ==
    LET st == [st0 EXCEPT !.dist_name = dist_name]
        fitted(params) ==
            LET o == FitOutcome(col, dist_name)
            IN  IF o.raises = "fit" THEN st
                ELSE IF o.raises = "kstest"
                     THEN [st EXCEPT !.params = params, !.params_bound = TRUE]
                ELSE KeepBest([st EXCEPT !.params = params,
                                         !.params_bound = TRUE,
                                         !.ks_stat = o.ks,
                                         !.ks_bound = TRUE])
    IN  CASE dist_name = "norm" -> fitted(NormFit(data_col))
          [] dist_name = "lognorm" ->
                IF AllPositive(data_col) THEN fitted(LognormFit(data_col)) ELSE st
          [] dist_name = "gamma" ->
                IF AllPositive(data_col) THEN fitted(GammaFit(data_col)) ELSE st
          [] dist_name = "beta" -> fitted(BetaFit(Normalized(data_col)))
          [] dist_name = "uniform" ->
                fitted(<<MinSeq(data_col), MaxSeq(data_col)>>)
          [] OTHER -> KeepBest(st)

RECURSIVE TryFamilies(_, _, _, _)
TryFamilies(col, data_col, cands, st) ==
    IF cands = <<>> THEN st
    ELSE TryFamilies(col, data_col, Tail(cands),
                     TryFamily(col, data_col, Head(cands), st))

\* self.distributions[col] = {...} (lines 104-111)
FittedRecord(data_col, st) ==
    [distribution |-> st.best_dist,
     params |-> st.best_params,
     ks_statistic |-> st.best_ks_stat,
     data_range |-> <<MinSeq(data_col), MaxSeq(data_col)>>,
     mean |-> Mean(data_col),
     std |-> Std(data_col)]

Put(map, key, value) ==
    AsMap([k \in DOMAIN map \cup {key} |-> IF k = key THEN value ELSE map[k]])

\* The locals at the start of a column's pass: best_* are reset (lines 67-69),
\* params and ks_stat keep what the previous column left.
ColumnStart(locals) ==
    [params |-> locals.params,
     params_bound |-> locals.params_bound,
     ks_stat |-> locals.ks_stat,
     ks_bound |-> locals.ks_bound,
     dist_name |-> None,
     best_dist |-> None,
     best_params |-> <<>>,
     best_ks_stat |-> Inf]

\* The column loop (lines 57-111): the map self.distributions after it.
RECURSIVE FitColumns(_, _, _, _)
FitColumn(cols, cands, dists, data_col, st) ==
    FitColumns(Tail(cols), cands, st, Put(dists, Head(cols), FittedRecord(data_col, st)))

FitColumns(cols, cands, locals, dists) ==
    IF cols = <<>> THEN dists
    ELSE IF Head(cols) \notin DOMAIN data
         THEN FitColumns(Tail(cols), cands, locals, dists)
         ELSE FitColumn(cols, cands, dists, DropNa(data[Head(cols)]),
                        TryFamilies(Head(cols), DropNa(data[Head(cols)]), cands,
                                    ColumnStart(locals)))

EmptyMap == <<>>

\* test_distributions or the default list (lines 52-53)
GivenDistributions(test_distributions) ==
    IF test_distributions = <<None>> THEN DefaultDistributions
    ELSE test_distributions

fit_distributions(test_distributions) ==
    /\ distributions' = FitColumns(numeric_columns,
                                   GivenDistributions(test_distributions),
                                   FreshLocals, distributions)
    /\ ret' = [op |-> "fit_distributions", status |-> "ok",
               args |-> <<test_distributions>>, value |-> <<>>]
    /\ UNCHANGED <<data, scipy, simulation_results, rng>>

---------------------------------------------------------------------------
(* The process-wide generator.  A state g yields one variate of each kind; *)
(* drawing n values uses the states g, g+1, ..., g+n-1 and leaves g+n.     *)

Advance(g, n) == (g + n) % GenPeriod

\* A standard normal variate.
StdNormal(g) == R(g - 1)

\* A uniform variate in [0, 1).
Unit(g) == Q(g, GenPeriod)

\* A standard log-normal variate (positive).
StdLognorm(g) == R(g + 1)

\* A standard gamma variate (positive).
StdGamma(g) == Q(g + 1, 2)

\* A standard beta variate, strictly inside (0, 1).
StdBeta(g) == Q(2 * g + 1, 2 * GenPeriod)

\* np.random.normal(loc, scale, n)
RandomNormal(loc, scale, n, g) ==
    AsSeq([i \in 1..n |-> RAdd(loc, RMul(scale, StdNormal(Advance(g, i - 1))))])

\* np.random.uniform(low, high, n)
RandomUniform(low, high, n, g) ==
    AsSeq([i \in 1..n |-> RAdd(low, RMul(RSub(high, low), Unit(Advance(g, i - 1))))])

\* stats.lognorm.rvs(s, loc, scale, size=n)
LognormRvs(params, n, g) ==
    AsSeq([i \in 1..n |->
        RAdd(params[2], RMul(params[3], StdLognorm(Advance(g, i - 1))))])

\* stats.gamma.rvs(a, loc, scale, size=n)
GammaRvs(params, n, g) ==
    AsSeq([i \in 1..n |->
        RAdd(params[2], RMul(params[3], StdGamma(Advance(g, i - 1))))])

\* stats.beta.rvs(a, b, loc, scale, size=n)
BetaRvs(params, n, g) ==
    AsSeq([i \in 1..n |->
        RAdd(params[3], RMul(params[4], StdBeta(Advance(g, i - 1))))])

Scale(xs, k) == AsSeq([i \in 1..Len(xs) |-> RMul(xs[i], k)])

---------------------------------------------------------------------------
(* generate_samples                                                        *)

\* scenario_adjustments=None
NoArg == [none |-> TRUE]

\* An adjustment defaulting to 0 for a variable the spec leaves out: C7
\* depends on the default of line 146.
AdjustmentZeroDefault(scenario_adjustments, col) ==
    IF /\ scenario_adjustments # NoArg
       /\ DOMAIN scenario_adjustments # {}
       /\ col \in DOMAIN scenario_adjustments
    THEN scenario_adjustments[col]
    ELSE R(0)

\* if scenario_adjustments and col in scenario_adjustments (lines 142-146)
Adjustment(scenario_adjustments, col) ==
    IF /\ scenario_adjustments # NoArg
       /\ DOMAIN scenario_adjustments # {}
       /\ col \in DOMAIN scenario_adjustments
    THEN scenario_adjustments[col]
    ELSE R(1)

\* A fallback that draws one value too many: C5 depends on the size of the
\* fallback draw.
FallbackDrawOffByOne(dist_info, adjustment, n, g) ==
    RandomNormal(RMul(dist_info.mean, adjustment), dist_info.std, n + 1, g)

\* A fallback whose multiplier scales the drawn values, spread included: C19
\* depends on the multiplier scaling the mean only.
FallbackDrawScaled(dist_info, adjustment, n, g) ==
    Scale(RandomNormal(dist_info.mean, dist_info.std, n, g), adjustment)

\* The fallback draw of lines 164 and 169.
FallbackDraw(dist_info, adjustment, n, g) ==
    RandomNormal(RMul(dist_info.mean, adjustment), dist_info.std, n, g)

\* A failed draw leaving the column undefined instead of falling back: C20
\* depends on the except of lines 166-169.
SampleColumnNoFallback(dist_info, adjustment, n, g) ==
    IF RvsRaises(dist_info.distribution, g)
    THEN AsSeq([i \in 1..n |-> NaN])
    ELSE CASE dist_info.distribution = "norm" ->
                RandomNormal(RMul(dist_info.params[1], adjustment),
                             dist_info.params[2], n, g)
           [] dist_info.distribution = "lognorm" ->
                Scale(LognormRvs(dist_info.params, n, g), adjustment)
           [] dist_info.distribution = "gamma" ->
                Scale(GammaRvs(dist_info.params, n, g), adjustment)
           [] dist_info.distribution = "beta" ->
                Scale(AsSeq([i \in 1..n |->
                         RAdd(RMul(BetaRvs(dist_info.params, n, g)[i],
                                   RSub(dist_info.data_range[2],
                                        dist_info.data_range[1])),
                              dist_info.data_range[1])]), adjustment)
           [] dist_info.distribution = "uniform" ->
                RandomUniform(RMul(dist_info.params[1], adjustment),
                              RMul(dist_info.params[2], adjustment), n, g)
           [] OTHER -> FallbackDraw(dist_info, adjustment, n, g)

\* A normal draw multiplied as a whole, spread included, like the draws of
\* the other families: C21 depends on line 150 scaling the mean only.
SampleColumnNormScaled(dist_info, adjustment, n, g) ==
    IF RvsRaises(dist_info.distribution, g)
    THEN FallbackDraw(dist_info, adjustment, n, g)
    ELSE CASE dist_info.distribution = "norm" ->
                Scale(RandomNormal(dist_info.params[1], dist_info.params[2],
                                   n, g), adjustment)
           [] dist_info.distribution = "lognorm" ->
                Scale(LognormRvs(dist_info.params, n, g), adjustment)
           [] dist_info.distribution = "gamma" ->
                Scale(GammaRvs(dist_info.params, n, g), adjustment)
           [] dist_info.distribution = "beta" ->
                Scale(AsSeq([i \in 1..n |->
                         RAdd(RMul(BetaRvs(dist_info.params, n, g)[i],
                                   RSub(dist_info.data_range[2],
                                        dist_info.data_range[1])),
                              dist_info.data_range[1])]), adjustment)
           [] dist_info.distribution = "uniform" ->
                RandomUniform(RMul(dist_info.params[1], adjustment),
                              RMul(dist_info.params[2], adjustment), n, g)
           [] OTHER -> FallbackDraw(dist_info, adjustment, n, g)

\* The try block of lines 148-169 for one variable: the column it puts in
\* samples[col].
SampleColumn(dist_info, adjustment, n, g) ==
    LET dist_name == dist_info.distribution
        params == dist_info.params
    IN  IF RvsRaises(dist_name, g)
        THEN \* rvs raises before drawing; except: fallback
             FallbackDraw(dist_info, adjustment, n, g)
        ELSE CASE dist_name = "norm" ->
                    RandomNormal(RMul(params[1], adjustment), params[2], n, g)
               [] dist_name = "lognorm" ->
                    Scale(LognormRvs(params, n, g), adjustment)
               [] dist_name = "gamma" ->
                    Scale(GammaRvs(params, n, g), adjustment)
               [] dist_name = "beta" ->
                    LET beta_samples == BetaRvs(params, n, g)
                        data_range == dist_info.data_range
                    IN  AsSeq([i \in 1..n |->
                                  RMul(RAdd(RMul(beta_samples[i],
                                                 RSub(data_range[2],
                                                      data_range[1])),
                                            data_range[1]),
                                       adjustment)])
               [] dist_name = "uniform" ->
                    RandomUniform(RMul(params[1], adjustment),
                                  RMul(params[2], adjustment), n, g)
               [] OTHER -> FallbackDraw(dist_info, adjustment, n, g)

\* samples[col] = column: the dict keeps insertion order.
PutColumn(samples, col, column) ==
    [columns |-> Append(samples.columns, col),
     values |-> Put(samples.values, col, column)]

\* The loop of lines 137-169 over self.distributions.items(): the samples
\* dict (column order and values) and the generator state it leaves.
RECURSIVE SampleColumns(_, _, _, _, _, _)
SampleColumns(cols, dists, scenario_adjustments, n, g, samples) ==
    IF cols = <<>> THEN [samples |-> samples, rng |-> g]
    ELSE SampleColumns(Tail(cols), dists, scenario_adjustments, n,
                       Advance(g, n),
                       PutColumn(samples, Head(cols),
                                 SampleColumn(dists[Head(cols)],
                                              Adjustment(scenario_adjustments,
                                                         Head(cols)),
                                              n, g)))

\* Profit_Rate / 100 (line 176)
Percent == 100

\* A test that also asks for the sampled Total_Estimate column: C8 depends on
\* the test of line 174 naming the four components only.
HasComponentsAndTotal(columns) ==
    (Components \cup {"Total_Estimate"}) \subseteq Range(columns)

\* if all(col in samples_df.columns for col in [...]) (line 174)
HasComponents(columns) == Components \subseteq Range(columns)

\* The derived total with Profit_Rate taken as a fraction: C9 depends on the
\* division by 100 of line 176.
TotalEstimateCalculatedFraction(values, i) ==
    LET base_cost == RAdd(values["Material_Cost"][i], values["Labor_Cost"][i])
        profit_amount == RMul(base_cost, values["Profit_Rate"][i])
    IN  RAdd(RAdd(base_cost, profit_amount), values["Discount_or_Markup"][i])

\* base_cost + profit_amount + Discount_or_Markup (lines 175-177)
TotalEstimateCalculated(values, i) ==
    LET base_cost == RAdd(values["Material_Cost"][i], values["Labor_Cost"][i])
        profit_amount ==
            RMul(base_cost, RDiv(values["Profit_Rate"][i], R(Percent)))
    IN  RAdd(RAdd(base_cost, profit_amount), values["Discount_or_Markup"][i])

\* Lines 171-177: the DataFrame of the samples, with the derived column.
WithDerived(samples, n) ==
    IF HasComponents(samples.columns)
    THEN PutColumn(samples, Derived,
                   AsSeq([i \in 1..n |->
                             TotalEstimateCalculated(samples.values, i)]))
    ELSE samples

\* The keys of self.distributions in insertion order: fit_distributions
\* inserts them in the order of numeric_columns.
Keys(dists) ==
    LET Fitted(c) == c \in DOMAIN dists IN SelectSeq(numeric_columns, Fitted)

NoTable == [columns |-> <<>>, values |-> EmptyMap]

\* What generate_samples returns once the loop has left s (lines 171-180).
Returned(s, n) ==
    [status |-> "ok", value |-> WithDerived(s.samples, n), rng |-> s.rng]

\* generate_samples without the guard of lines 130-131: C2 depends on it.
GenerateSamplesUnguarded(dists, n, scenario_adjustments, g) ==
    Returned(SampleColumns(Keys(dists), dists, scenario_adjustments, n, g,
                           NoTable), n)

\* generate_samples refusing a spec that names a variable without a fitted
\* record: C29 depends on the loop of line 137 walking self.distributions
\* and looking the spec up by column only.
GenerateSamplesStrict(dists, n, scenario_adjustments, g) ==
    IF \/ DOMAIN dists = {}
       \/ /\ scenario_adjustments # NoArg
          /\ ~(DOMAIN scenario_adjustments \subseteq DOMAIN dists)
    THEN [status |-> "ValueError", value |-> NoTable, rng |-> g]
    ELSE Returned(SampleColumns(Keys(dists), dists, scenario_adjustments, n, g,
                                NoTable), n)

\* generate_samples as a function of the object's state, its arguments and
\* the generator state: what it returns or raises, and the generator after.
GenerateSamples(dists, n, scenario_adjustments, g) ==
    IF DOMAIN dists = {}
    THEN [status |-> "ValueError", value |-> NoTable, rng |-> g]
    ELSE Returned(SampleColumns(Keys(dists), dists, scenario_adjustments, n, g,
                                NoTable), n)

\* Number of rows of a sample table.
NRows(table) ==
    IF table.columns = <<>> THEN 0 ELSE Len(table.values[table.columns[1]])

AllOnes == AsMap([c \in Range(numeric_columns) |-> R(1)])

\* The scenario specs generate_samples is called with directly.
Specs ==
    {NoArg,
     EmptyMap,
     AllOnes,
     [Material_Cost |-> Q(11, 10), Labor_Cost |-> Q(23, 20),
      Discount_or_Markup |-> Q(3, 2), Total_Estimate |-> R(2),
      Total_Estimate_Calculated |-> R(3)],
     [Labor_Cost |-> Q(-1, 2)]}

\* The caller's view of a generate_samples call with outcome r.
\* A sampler that uses the fitted records up, leaving the map empty: C24
\* depends on generate_samples only reading self.distributions.
GenerateSamplesCallConsuming(n_simulations, scenario_adjustments, r) ==
    /\ ret' = [op |-> "generate_samples", status |-> r.status,
               args |-> <<n_simulations, scenario_adjustments>>,
               rng0 |-> rng, value |-> r.value]
    /\ rng' = r.rng
    /\ distributions' = EmptyMap
    /\ UNCHANGED <<data, scipy, simulation_results>>

GenerateSamplesCall(n_simulations, scenario_adjustments, r) ==
    /\ ret' = [op |-> "generate_samples", status |-> r.status,
               args |-> <<n_simulations, scenario_adjustments>>,
               rng0 |-> rng, value |-> r.value]
    /\ rng' = r.rng
    /\ UNCHANGED <<data, scipy, distributions, simulation_results>>

generate_samples(n_simulations, scenario_adjustments) ==
    GenerateSamplesCall(n_simulations, scenario_adjustments,
                        GenerateSamples(distributions, n_simulations,
                                        scenario_adjustments, rng))

---------------------------------------------------------------------------
(* Descriptive statistics and risk metrics (pandas.Series reductions).     *)

Floor(a) == a[1] \div a[2]

\* The value at fractional position h (counted from 0) of the ascending ys.
Interpolate(ys, h) ==
    IF ys = <<>> THEN NaN
    ELSE IF Floor(h) + 2 > Len(ys) THEN ys[Floor(h) + 1]
    ELSE RAdd(ys[Floor(h) + 1],
              RMul(RSub(h, R(Floor(h))),
                   RSub(ys[Floor(h) + 2], ys[Floor(h) + 1])))

QuantileSorted(ys, q) == Interpolate(ys, RMul(R(Len(ys) - 1), q))

\* Series.quantile(q), linear interpolation; NaN on an empty series.
Quantile(xs, q) == QuantileSorted(AsSeq(Sorted(DropNa(xs))), q)

MedianSorted(ys) ==
    IF ys = <<>> THEN NaN
    ELSE IF Len(ys) % 2 = 1 THEN ys[(Len(ys) + 1) \div 2]
    ELSE RDiv(RAdd(ys[Len(ys) \div 2], ys[(Len(ys) \div 2) + 1]), R(2))

\* Series.median(): the middle value, or the mean of the two middle values.
Median(xs) == MedianSorted(AsSeq(Sorted(DropNa(xs))))

\* stats_dict of lines 220-230
Statistics(xs) ==
    [mean |-> Mean(xs),
     median |-> Median(xs),
     std |-> Std(xs),
     min |-> MinSeq(DropNa(xs)),
     max |-> MaxSeq(DropNa(xs)),
     q25 |-> Quantile(xs, Q(25, 100)),
     q75 |-> Quantile(xs, Q(75, 100)),
     q95 |-> Quantile(xs, Q(95, 100)),
     q99 |-> Quantile(xs, Q(99, 100))]

\* An exact comparison with the sampled total's name: C23 depends on the
\* test of line 234 taking the derived column as well.
IsRiskColumnExact(col) == col = "Total_Estimate"

\* 'Total_Estimate' in col (line 234): a substring test, true of the sampled
\* Total_Estimate and of the derived Total_Estimate_Calculated.
IsRiskColumn(col) == col \in {"Total_Estimate", Derived}

\* baseline_mean of line 235
BaselineMean(dataset, xs) ==
    IF "Total_Estimate" \in DOMAIN dataset THEN Mean(dataset["Total_Estimate"])
    ELSE Mean(xs)

\* The tail mean over the samples strictly below the quantile: C11 depends
\* on the <= of line 240.
AtMostMeanStrict(xs, v) ==
    LET Below(x) == RLt(x, v) IN Mean(SelectSeq(xs, Below))

\* samples[col][samples[col] <= samples[col].quantile(0.05)].mean()
AtMostMean(xs, v) ==
    LET AtMost(x) == RLe(x, v) IN Mean(SelectSeq(xs, AtMost))

TailMean(xs) == AtMostMean(xs, Quantile(xs, Q(5, 100)))

\* The fraction of samples at or below the reference: C12 depends on the
\* strict < of line 241.
ProbLossInclusive(xs, baseline_mean) ==
    LET AtOrBelow(x) == RLe(x, baseline_mean)
    IN  IF xs = <<>> THEN NaN
        ELSE Q(Len(SelectSeq(xs, AtOrBelow)), Len(xs))

\* (samples[col] < baseline_mean).mean(): NaN on an empty series.
ProbLoss(xs, baseline_mean) ==
    LET Below(x) == RLt(x, baseline_mean)
    IN  IF xs = <<>> THEN NaN
        ELSE Q(Len(SelectSeq(xs, Below)), Len(xs))

\* var_95 read off the upper tail: C10 depends on the 0.05 of line 238.
Var95Upper(xs) == Quantile(xs, Q(95, 100))

\* var_95 = samples[col].quantile(0.05) (line 238)
Var95(xs) == Quantile(xs, Q(5, 100))

\* risk_metrics of lines 237-243
RiskMetrics(dataset, xs) ==
    [var_95 |-> Var95(xs),
     var_99 |-> Quantile(xs, Q(1, 100)),
     cvar_95 |-> TailMean(xs),
     prob_loss |-> ProbLoss(xs, BaselineMean(dataset, xs)),
     expected_shortfall |-> TailMean(xs)]

\* scenario_results of lines 213-244 for one sample table.
ScenarioResults(dataset, samples) ==
    LET cols == Range(samples.columns)
    IN  [samples |-> samples,
         statistics |-> AsMap([c \in cols |-> Statistics(samples.values[c])]),
         risk_metrics |->
            AsMap([c \in {x \in cols : IsRiskColumn(x)} |->
                      RiskMetrics(dataset, samples.values[c])])]

---------------------------------------------------------------------------
(* run_simulation                                                          *)

\* scenarios when the caller gives none (lines 195-200): an ordered dict,
\* here a sequence of <<name, adjustments>>.
DefaultScenarios ==
    << <<"baseline", EmptyMap>>,
       <<"material_increase_10pct", [Material_Cost |-> Q(11, 10)]>>,
       <<"labor_increase_15pct", [Labor_Cost |-> Q(23, 20)]>>,
       <<"combined_increase",
         [Material_Cost |-> Q(11, 10), Labor_Cost |-> Q(23, 20)]>> >>

\* The scenario sets callers pass (<<None>> stands for scenarios=None).
ScenarioSets ==
    {<<None>>,
     <<>>,
     << <<"material_increase_10pct", [Material_Cost |-> Q(11, 10)]>> >>,
     << <<"baseline", EmptyMap>>, <<"all_ones", AllOnes>> >>}

\* An entry put in front of the earlier ones: C15 depends on the dict
\* keeping insertion order.
PutResultFirst(results, scenario_name, scenario_results) ==
    <<[name |-> scenario_name, result |-> scenario_results]>> \o results

\* One result object shared by every entry, so that storing a scenario
\* overwrites what the earlier names hold: C25 depends on line 213 building
\* a new dict around a new table in every iteration.
PutResultShared(results, scenario_name, scenario_results) ==
    Append(AsSeq([i \in 1..Len(results) |->
                     [name |-> results[i].name, result |-> scenario_results]]),
           [name |-> scenario_name, result |-> scenario_results])

\* results[scenario_name] = scenario_results (line 246)
PutResult(results, scenario_name, scenario_results) ==
    Append(results, [name |-> scenario_name, result |-> scenario_results])

\* The loop of lines 207-247: results is the ordered dict built so far, a
\* sequence of [name, result]; an exception of generate_samples propagates.
RECURSIVE RunScenarios(_, _, _, _, _, _)
\* A loop that ends with the first scenario whose sampling returned: C14
\* depends on the loop going on to the remaining scenarios.
RunScenarioOnly(scenarios, dataset, dists, n, results, r) ==
    IF r.status # "ok"
    THEN [status |-> r.status, results |-> results, rng |-> r.rng]
    ELSE [status |-> "ok",
          results |-> PutResult(results, Head(scenarios)[1],
                                ScenarioResults(dataset, r.value)),
          rng |-> r.rng]

RunScenario(scenarios, dataset, dists, n, results, r) ==
    IF r.status # "ok"
    THEN [status |-> r.status, results |-> results, rng |-> r.rng]
    ELSE RunScenarios(Tail(scenarios), dataset, dists, n, r.rng,
                      PutResult(results, Head(scenarios)[1],
                                ScenarioResults(dataset, r.value)))

RunScenarios(scenarios, dataset, dists, n, g, results) ==
    IF scenarios = <<>> THEN [status |-> "ok", results |-> results, rng |-> g]
    ELSE RunScenario(scenarios, dataset, dists, n, results,
                     GenerateSamples(dists, n, Head(scenarios)[2], g))

\* scenarios or the default set (lines 194-200)
GivenScenarios(scenarios) ==
    IF scenarios = <<None>> THEN DefaultScenarios ELSE scenarios

\* A run that adds its entries to those already stored: C28 depends on
\* line 249 replacing self.simulation_results by the run's own dict.
RunSimulationCallMerging(n_simulations, scenarios, r) ==
    /\ simulation_results' =
          IF r.status = "ok" THEN simulation_results \o r.results
          ELSE simulation_results
    /\ rng' = r.rng
    /\ ret' = [op |-> "run_simulation", status |-> r.status,
               args |-> <<n_simulations, scenarios>>, rng0 |-> rng,
               value |-> IF r.status = "ok" THEN r.results ELSE <<>>]
    /\ UNCHANGED <<data, scipy, distributions>>

\* The caller's view of a run_simulation call with outcome r: the results are
\* stored (line 249) only when the loop has not raised.
RunSimulationCall(n_simulations, scenarios, r) ==
    /\ simulation_results' =
          IF r.status = "ok" THEN r.results ELSE simulation_results
    /\ rng' = r.rng
    /\ ret' = [op |-> "run_simulation", status |-> r.status,
               args |-> <<n_simulations, scenarios>>, rng0 |-> rng,
               value |-> IF r.status = "ok" THEN r.results ELSE <<>>]
    /\ UNCHANGED <<data, scipy, distributions>>

run_simulation(n_simulations, scenarios) ==
    RunSimulationCall(n_simulations, scenarios,
                      RunScenarios(GivenScenarios(scenarios), data,
                                   distributions, n_simulations, rng, <<>>))

---------------------------------------------------------------------------
(* get_summary_statistics and print_risk_analysis                          *)

\* scenario in self.simulation_results
HasScenario(results, scenario) ==
    \E i \in 1..Len(results) : results[i].name = scenario

Lookup(results, scenario) ==
    results[CHOOSE i \in 1..Len(results) : results[i].name = scenario].result

\* f"{x:,.2f}": x rounded to hundredths, ties to even.
Fmt2(x) ==
    IF ~IsFinite(x) THEN x
    ELSE LET whole == x[1] \div x[2]
             part == (x[1] % x[2]) * Percent
             cents == part \div x[2]
             twice == 2 * (part % x[2])
             up == twice > x[2] \/ (twice = x[2] /\ cents % 2 = 1)
         IN  RAdd(R(whole), Q(IF up THEN cents + 1 ELSE cents, Percent))

\* The scenario names requests are made with.
RequestNames == {"baseline", "material_increase_10pct"}

\* The rows of the summary DataFrame (lines 266-281), in column order.
SummaryRows(result) ==
    AsSeq([i \in 1..Len(result.samples.columns) |->
        LET col == result.samples.columns[i]
            st == result.statistics[col]
        IN  [Variable |-> col,
             Mean |-> Fmt2(st.mean),
             Median |-> Fmt2(st.median),
             StdDev |-> Fmt2(st.std),
             Min |-> Fmt2(st.min),
             Max |-> Fmt2(st.max),
             Q95 |-> Fmt2(st.q95),
             Q99 |-> Fmt2(st.q99)]])

\* get_summary_statistics answering an unknown name with an empty summary
\* instead of raising: C3 depends on the raise of lines 263-264.
get_summary_statistics_lenient(scenario) ==
    /\ ret' = [op |-> "get_summary_statistics", status |-> "ok",
               args |-> <<scenario>>,
               value |-> IF HasScenario(simulation_results, scenario)
                         THEN SummaryRows(Lookup(simulation_results, scenario))
                         ELSE <<>>]
    /\ UNCHANGED <<data, scipy, distributions, simulation_results, rng>>

get_summary_statistics(scenario) ==
    /\ ret' = IF ~HasScenario(simulation_results, scenario)
              THEN [op |-> "get_summary_statistics", status |-> "ValueError",
                    args |-> <<scenario>>, value |-> <<>>]
              ELSE [op |-> "get_summary_statistics", status |-> "ok",
                    args |-> <<scenario>>,
                    value |-> SummaryRows(Lookup(simulation_results, scenario))]
    /\ UNCHANGED <<data, scipy, distributions, simulation_results, rng>>

\* What print_risk_analysis prints for a stored scenario (lines 294-305): one
\* block per risk-assessed column.
RiskLines(result) ==
    LET cols == SelectSeq(result.samples.columns, IsRiskColumn)
    IN  AsSeq([i \in 1..Len(cols) |->
            LET m == result.risk_metrics[cols[i]]
            IN  [column |-> cols[i],
                 var_95 |-> Fmt2(m.var_95),
                 var_99 |-> Fmt2(m.var_99),
                 cvar_95 |-> Fmt2(m.cvar_95),
                 prob_loss |-> Fmt2(RMul(m.prob_loss, R(Percent))),
                 expected_shortfall |-> Fmt2(m.expected_shortfall)]])

\* print_risk_analysis returns None in both branches; printed is its output.
print_risk_analysis(scenario) ==
    /\ ret' = IF ~HasScenario(simulation_results, scenario)
              THEN [op |-> "print_risk_analysis", status |-> "ok",
                    args |-> <<scenario>>, value |-> <<>>,
                    printed |-> "not found"]
              ELSE [op |-> "print_risk_analysis", status |-> "ok",
                    args |-> <<scenario>>, value |-> <<>>,
                    printed |-> RiskLines(Lookup(simulation_results, scenario))]
    /\ UNCHANGED <<data, scipy, distributions, simulation_results, rng>>

---------------------------------------------------------------------------
(* The object after construction, and its callers.                         *)

\* __init__ (lines 30-37): no distributions, no results.
Init ==
    /\ data \in Datasets
    /\ scipy \in [profile : 0..MaxProfile]
    /\ distributions = EmptyMap
    /\ simulation_results = <<>>
    /\ rng \in 0..(GenPeriod - 1)
    /\ ret = [op |-> "__init__", status |-> "ok", args |-> <<>>, value |-> <<>>]
    /\ calls = 0

\* One more method call on the object.
Call == calls < MaxCalls /\ calls' = calls + 1

Next ==
    \/ \E c \in CandidateLists : Call /\ fit_distributions(c)
    \/ \E n \in 0..MaxN, a \in Specs : Call /\ generate_samples(n, a)
    \/ \E n \in 0..MaxN, s \in ScenarioSets : Call /\ run_simulation(n, s)
    \/ \E s \in RequestNames : Call /\ get_summary_statistics(s)
    \/ \E s \in RequestNames : Call /\ print_risk_analysis(s)

Spec == Init /\ [][Next]_vars

---------------------------------------------------------------------------
(* Properties                                                              *)

\* The last call was a generate_samples that returned a table.
Sampled == ret.op = "generate_samples" /\ ret.status = "ok"

\* The sample tables the object has handed out or stored: the one the last
\* generate_samples call returned, and those kept in simulation_results.
Tables ==
    {simulation_results[i].result.samples : i \in 1..Len(simulation_results)}
        \cup (IF Sampled THEN {ret.value} ELSE {})

\* The generator state from which column c of a table of n rows is drawn,
\* when the table's first column is drawn from g0: each column before it
\* has taken n draws.
DrawnAt(c, n, g0) ==
    Advance(g0, n * ((CHOOSE k \in 1..Len(Keys(distributions)) :
                         Keys(distributions)[k] = c) - 1))

\* Column c of such a table comes from the fallback draw: no known family
\* was recorded for it, or the draw from its family raised.
FellBack(c, n, g0) ==
    \/ distributions[c].distribution \notin Families
    \/ RvsRaises(distributions[c].distribution, DrawnAt(c, n, g0))

\* C1: for every stored scenario and every risk-assessed column, prob_loss is
\* the fraction of the scenario's samples strictly below the baseline
\* scenario's mean of that column (its own mean for the baseline scenario).
C1_ProbLossAgainstBaselineScenario ==
    \A i \in 1..Len(simulation_results) :
        \A c \in DOMAIN simulation_results[i].result.risk_metrics :
            (/\ HasScenario(simulation_results, "baseline")
             /\ c \in DOMAIN Lookup(simulation_results, "baseline").samples.values)
            => simulation_results[i].result.risk_metrics[c].prob_loss
                 = ProbLoss(simulation_results[i].result.samples.values[c],
                            Mean(Lookup(simulation_results,
                                        "baseline").samples.values[c]))

\* A step that calls generate_samples, directly or through a run_simulation
\* with at least one scenario, on an object nothing has been fitted on.
UnfittedSamplingStep ==
    /\ calls' # calls
    /\ DOMAIN distributions = {}
    /\ \/ ret'.op = "generate_samples"
       \/ ret'.op = "run_simulation" /\ GivenScenarios(ret'.args[2]) # <<>>

\* C2: generate_samples, and a run_simulation that reaches it, called before
\* any fit_distributions raises ValueError to the caller: no table is
\* returned and the stored simulation results are unchanged.
C2_UnfittedSamplingFails ==
    [][UnfittedSamplingStep =>
          /\ ret'.status = "ValueError"
          /\ ret'.op = "generate_samples" => ret'.value = NoTable
          /\ ret'.op = "run_simulation" => ret'.value = <<>>
          /\ simulation_results' = simulation_results]_vars

C2_Witness ==
    /\ ret.op = "run_simulation"
    /\ ret.status = "ValueError"
    /\ ret.args[1] > 0
    /\ DOMAIN distributions = {}

\* A step that asks for a scenario name absent from the stored results.
UnknownScenarioStep ==
    /\ calls' # calls
    /\ ret'.op \in {"get_summary_statistics", "print_risk_analysis"}
    /\ ~HasScenario(simulation_results, ret'.args[1])

\* C3 as stated: both get_summary_statistics and print_risk_analysis fail
\* with an error propagated to the caller on an unknown scenario name, and
\* leave the stored results unchanged.
C3_UnknownScenarioRaises ==
    [][UnknownScenarioStep =>
          /\ ret'.status = "ValueError"
          /\ simulation_results' = simulation_results]_vars

\* C3: on a scenario name absent from the stored results,
\* get_summary_statistics raises ValueError to the caller, while
\* print_risk_analysis prints a not-found message and returns normally;
\* both leave the stored results unchanged.
C3_UnknownScenarioHandling ==
    [][UnknownScenarioStep =>
          /\ simulation_results' = simulation_results
          /\ ret'.op = "get_summary_statistics" => ret'.status = "ValueError"
          /\ ret'.op = "print_risk_analysis" =>
                ret'.status = "ok" /\ ret'.printed = "not found"]_vars

C3_Witness ==
    /\ ret.op = "get_summary_statistics"
    /\ ret.status = "ValueError"
    /\ ret.args[1] = "material_increase_10pct"
    /\ simulation_results # <<>>

\* C4: no statistics or risk-metrics record is ever produced for a
\* zero-length sample column: a run with n_simulations = 0 signals an error
\* instead.
C4_NoRecordOnEmptyColumn ==
    \A i \in 1..Len(simulation_results) :
        \A c \in DOMAIN simulation_results[i].result.statistics :
            Len(simulation_results[i].result.samples.values[c]) # 0

\* C5: for n >= 1 and every scenario spec, the table generate_samples returns
\* has exactly n rows and a column of n values for every variable with a
\* fitted-distribution record, drawn from its family or from the fallback.
C5_RowsAndColumns ==
    (Sampled /\ ret.args[1] >= 1) =>
        /\ NRows(ret.value) = ret.args[1]
        /\ \A c \in DOMAIN distributions :
              /\ c \in Range(ret.value.columns)
              /\ Len(ret.value.values[c]) = ret.args[1]

\* A table was returned in which some variable was drawn by the fallback.
C5_Witness ==
    /\ Sampled
    /\ ret.args[1] = MaxN
    /\ \E c \in DOMAIN distributions :
          FellBack(c, ret.args[1], ret.rng0)
    /\ \E c \in DOMAIN distributions :
          ~FellBack(c, ret.args[1], ret.rng0)

\* C6: two consecutive generate_samples calls with the same fitted
\* distributions, the same n and the same scenario spec return identical
\* tables.
C6_RepeatedCallsAgree ==
    [][(/\ Sampled
        /\ calls' # calls
        /\ ret'.op = "generate_samples"
        /\ ret'.status = "ok"
        /\ ret'.args = ret.args)
       => ret'.value = ret.value]_vars

\* The scenario spec with multiplier 1 written out for every variable the
\* given spec leaves out.
Completed(scenario_adjustments) ==
    AsMap([c \in Range(numeric_columns) |->
              IF scenario_adjustments # NoArg
                 /\ c \in DOMAIN scenario_adjustments
              THEN scenario_adjustments[c]
              ELSE R(1)])

\* C7: from the same generator state and fitted distributions, generate_samples
\* with a spec (empty, absent or partial) returns the table, and leaves the
\* generator in the state, of the call with multiplier 1 given explicitly for
\* every variable the spec leaves out.
C7_MultiplierIdentity ==
    Sampled =>
        /\ ret.value = GenerateSamples(distributions, ret.args[1],
                                       Completed(ret.args[2]), ret.rng0).value
        /\ rng = GenerateSamples(distributions, ret.args[1],
                                 Completed(ret.args[2]), ret.rng0).rng

\* An empty spec was sampled, and the explicit all-ones spec gives its table.
C7_Witness ==
    /\ Sampled
    /\ ret.args[1] = MaxN
    /\ ret.args[2] = EmptyMap
    /\ Completed(ret.args[2]) = AllOnes
    /\ ret.value = GenerateSamples(distributions, ret.args[1], AllOnes,
                                   ret.rng0).value
    /\ \E c \in DOMAIN distributions : ret.value.values[c][1] # R(0)

\* C8: a table handed out by generate_samples has the derived column
\* Total_Estimate_Calculated exactly when all four component variables have
\* sampled columns.
C8_DerivedPresence ==
    \A t \in Tables :
        Derived \in Range(t.columns) <=> Components \subseteq Range(t.columns)

C8_Witness ==
    /\ Sampled
    /\ ret.args[1] >= 1
    /\ Components \subseteq Range(ret.value.columns)
    /\ "Total_Estimate" \notin Range(ret.value.columns)
    /\ Derived \in Range(ret.value.columns)

\* C9: in every row of a table that has the derived column,
\* Total_Estimate_Calculated = (Material_Cost + Labor_Cost)
\* * (1 + Profit_Rate/100) + Discount_or_Markup of that row, and the sampled
\* Total_Estimate column is the sampler's own draw, kept beside it.
C9_DerivedFormula ==
    /\ \A t \in Tables :
          Derived \in Range(t.columns) =>
             \A i \in 1..NRows(t) :
                t.values[Derived][i] =
                   RAdd(RMul(RAdd(t.values["Material_Cost"][i],
                                  t.values["Labor_Cost"][i]),
                             RAdd(R(1), RDiv(t.values["Profit_Rate"][i],
                                             R(100)))),
                        t.values["Discount_or_Markup"][i])
    /\ (Sampled /\ "Total_Estimate" \in DOMAIN distributions) =>
          /\ "Total_Estimate" \in Range(ret.value.columns)
          /\ ret.value.values["Total_Estimate"] =
                SampleColumns(Keys(distributions), distributions, ret.args[2],
                              ret.args[1], ret.rng0,
                              NoTable).samples.values["Total_Estimate"]

C9_Witness ==
    /\ Sampled
    /\ ret.args[1] = MaxN
    /\ Derived \in Range(ret.value.columns)
    /\ "Total_Estimate" \in Range(ret.value.columns)
    /\ ret.value.values["Profit_Rate"][1] \notin {R(0), NaN}
    /\ ret.value.values[Derived][1] # ret.value.values["Total_Estimate"][1]

\* The column has a sample: pandas counts NaN as missing, so a column of NaN
\* only is empty to every reduction.
NonEmpty(xs) == DropNa(xs) # <<>>

RiskColumns ==
    {p \in (1..Len(simulation_results)) \X {Derived, "Total_Estimate"} :
        p[2] \in DOMAIN simulation_results[p[1]].result.risk_metrics}

\* The samples, the risk metrics and the statistics of such a pair.
SamplesOf(p) == simulation_results[p[1]].result.samples.values[p[2]]

RiskOf(p) == simulation_results[p[1]].result.risk_metrics[p[2]]

StatsOf(p) == simulation_results[p[1]].result.statistics[p[2]]

\* The samples of xs that are at most v.
UpTo(xs, v) == LET AtMost(x) == RLe(x, v) IN SelectSeq(xs, AtMost)

ReferenceOf(p) == BaselineMean(data, SamplesOf(p))

\* The rows of the column of pair p that lie strictly below its reference.
RowsBelow(p) ==
    {j \in 1..Len(SamplesOf(p)) : RLt(SamplesOf(p)[j], ReferenceOf(p))}

\* C12: with M the reference mean used for a column, prob_loss is the
\* fraction of the column's samples strictly below M: 1 when all of them lie
\* strictly below M, 0 when all lie strictly above, and a sample equal to M is
\* not counted.
C12_ProbLossStrict ==
    \A p \in RiskColumns :
        Len(SamplesOf(p)) >= 1 =>
            /\ RiskOf(p).prob_loss =
                  Q(Cardinality(RowsBelow(p)), Len(SamplesOf(p)))
            /\ (\A j \in 1..Len(SamplesOf(p)) :
                   RLt(SamplesOf(p)[j], ReferenceOf(p)))
                  => RiskOf(p).prob_loss = R(1)
            /\ (\A j \in 1..Len(SamplesOf(p)) :
                   RLt(ReferenceOf(p), SamplesOf(p)[j]))
                  => RiskOf(p).prob_loss = R(0)
            /\ (\A j \in 1..Len(SamplesOf(p)) :
                   SamplesOf(p)[j] = ReferenceOf(p))
                  => RiskOf(p).prob_loss = R(0)

\* Stored results with a column wholly below its reference, and a column
\* with a sample equal to its reference that is not counted.
C12_Witness ==
    /\ \E p \in RiskColumns :
          /\ Len(SamplesOf(p)) = MaxN
          /\ RowsBelow(p) = 1..MaxN
          /\ RiskOf(p).prob_loss = R(1)
    /\ \E p \in RiskColumns :
          /\ \E j \in 1..Len(SamplesOf(p)) : SamplesOf(p)[j] = ReferenceOf(p)
          /\ Cardinality(RowsBelow(p)) < Len(SamplesOf(p))
          /\ RiskOf(p).prob_loss =
                Q(Cardinality(RowsBelow(p)), Len(SamplesOf(p)))

\* The last call was a fit_distributions.
Fitted == ret.op = "fit_distributions"

\* The data columns holding a value <= 0.
NonPositiveColumns ==
    {c \in DOMAIN data :
        \E j \in 1..Len(DropNa(data[c])) : RLe(DropNa(data[c])[j], R(0))}

\* The candidates of the last fit other than log-normal and gamma whose fit
\* and KS test succeed on column c.
OtherFits(c) ==
    {f \in Range(GivenDistributions(ret.args[1])) \cap
            {"norm", "beta", "uniform"} : FitOutcome(c, f).raises = "no"}

\* C13: fit_distributions does not raise, and for a variable whose data hold
\* a value <= 0 it records a family other than log-normal and gamma, still
\* choosing among the remaining candidates: whenever one of them fits, a
\* family is recorded whose KS statistic is no larger.
C13_NonPositiveExcluded ==
    Fitted =>
        /\ ret.status = "ok"
        /\ \A c \in NonPositiveColumns :
              /\ c \in DOMAIN distributions
              /\ distributions[c].distribution \notin {"lognorm", "gamma"}
              /\ \A f \in OtherFits(c) :
                    /\ distributions[c].distribution # None
                    /\ RLe(distributions[c].ks_statistic, FitOutcome(c, f).ks)

\* A fit whose candidates include log-normal and gamma recorded another
\* family for a column with a negative value.
C13_Witness ==
    /\ Fitted
    /\ {"lognorm", "gamma"} \subseteq Range(GivenDistributions(ret.args[1]))
    /\ "Discount_or_Markup" \in NonPositiveColumns
    /\ FitOutcome("Discount_or_Markup", "gamma").raises = "no"
    /\ distributions["Discount_or_Markup"].distribution \in {"norm", "beta", "uniform"}

\* The last call was a run_simulation on an object with fitted distributions.
RanFitted == ret.op = "run_simulation" /\ DOMAIN distributions # {}

\* The scenarios of the last run_simulation call, the number of rows asked
\* for, and the generator state from which its k-th scenario was sampled:
\* every scenario before it has drawn every column.
RunSet == GivenScenarios(ret.args[2])

RunRows == ret.args[1]

StartOf(k) ==
    Advance(ret.rng0, (k - 1) * RunRows * Len(Keys(distributions)))

\* The k-th scenario of the last run engaged the fallback because a draw
\* from a fitted family raised.
DrawFailedIn(k) ==
    \E c \in DOMAIN distributions :
        RvsRaises(distributions[c].distribution, DrawnAt(c, RunRows, StartOf(k)))

\* C14: on fitted distributions run_simulation returns and stores an entry
\* for every scenario of the set, each the result of that scenario's own
\* sampling, whether or not a draw failed (and the fallback was engaged) in
\* this or in another scenario.
C14_RunToleratesFailure ==
    RanFitted =>
        /\ ret.status = "ok"
        /\ simulation_results = ret.value
        /\ Len(ret.value) = Len(RunSet)
        /\ \A k \in 1..Len(RunSet) :
              /\ ret.value[k].name = RunSet[k][1]
              /\ ret.value[k].result =
                    ScenarioResults(data,
                        GenerateSamples(distributions, RunRows, RunSet[k][2],
                                        StartOf(k)).value)

\* A run in which a draw failed in one scenario and in a later one none did.
C14_Witness ==
    /\ RanFitted
    /\ RunRows = MaxN
    /\ \E k \in 1..Len(RunSet) :
          /\ DrawFailedIn(k)
          /\ \E j \in (k + 1)..Len(RunSet) : ~DrawFailedIn(j)
    /\ Len(simulation_results) = Len(RunSet)

\* The last call was a run_simulation that returned.
Ran == ret.op = "run_simulation" /\ ret.status = "ok"

\* C15: the results map run_simulation returns and stores has one entry per
\* scenario of the set, under unique names, in the order of the set; with no
\* set given the default set is run, whose first entry is baseline, sampled
\* with the empty spec.
C15_ScenarioOrder ==
    Ran =>
        /\ simulation_results = ret.value
        /\ Len(ret.value) = Len(RunSet)
        /\ \A k \in 1..Len(RunSet) : ret.value[k].name = RunSet[k][1]
        /\ \A j, k \in 1..Len(ret.value) :
              ret.value[j].name = ret.value[k].name => j = k
        /\ ret.args[2] = <<None>> =>
              /\ RunSet = DefaultScenarios
              /\ ret.value[1].name = "baseline"
              /\ RunSet[1][2] = EmptyMap
              /\ ret.value[1].result.samples =
                    GenerateSamples(distributions, RunRows, EmptyMap,
                                    ret.rng0).value

\* A run of the default set returned its four entries.
C15_Witness ==
    /\ Ran
    /\ ret.args[2] = <<None>>
    /\ RunRows >= 1
    /\ Len(simulation_results) = 4
    /\ simulation_results[1].name = "baseline"
    /\ simulation_results[4].name = "combined_increase"

\* C16: run_simulation never returns or stores a results map without a
\* baseline entry: a scenario set lacking baseline is refused.
C16_BaselineRequired ==
    Ran =>
        /\ HasScenario(ret.value, "baseline")
        /\ HasScenario(simulation_results, "baseline")

\* C17: no table returned by generate_samples holds a NaN in a variable's
\* column: a column that cannot be drawn from a fitted family holds defined
\* draws of the fallback.
C17_NoNaNSamples ==
    Sampled =>
        \A c \in DOMAIN distributions :
            \A j \in 1..Len(ret.value.values[c]) :
                ~IsNaN(ret.value.values[c][j])

\* The candidate list of the last fit names only families the fitter knows.
KnownCandidates == Range(GivenDistributions(ret.args[1])) \subseteq Families

\* The candidates of the last fit that are fitted to column c and tested
\* without an exception: log-normal and gamma are not tried on data with a
\* value <= 0.
Successful(c) ==
    {f \in Range(GivenDistributions(ret.args[1])) \cap Families :
        /\ FitOutcome(c, f).raises = "no"
        /\ f \in {"lognorm", "gamma"} => c \notin NonPositiveColumns}

\* The parameters fitting family f to the values xs gives.
ParamsOf(f, xs) ==
    CASE f = "norm" -> NormFit(xs)
      [] f = "lognorm" -> LognormFit(xs)
      [] f = "gamma" -> GammaFit(xs)
      [] f = "beta" -> BetaFit(Normalized(xs))
      [] f = "uniform" -> <<MinSeq(xs), MaxSeq(xs)>>

\* C18: after a fit over candidate families, every data column has a record,
\* and the record of a column with a successfully fitted candidate names one
\* of them, with its parameters and its KS statistic, the smallest among
\* them; candidates whose fit or KS test raised are passed over.
C18_SmallestKS ==
    (Fitted /\ KnownCandidates) =>
        /\ ret.status = "ok"
        /\ DOMAIN distributions = DOMAIN data
        /\ \A c \in DOMAIN data :
              Successful(c) # {} =>
                 /\ distributions[c].distribution \in Successful(c)
                 /\ distributions[c].ks_statistic =
                       FitOutcome(c, distributions[c].distribution).ks
                 /\ distributions[c].params =
                       ParamsOf(distributions[c].distribution, DropNa(data[c]))
                 /\ \A f \in Successful(c) :
                       RLe(distributions[c].ks_statistic, FitOutcome(c, f).ks)

\* A fit recorded, for some column, a family tried after a candidate whose
\* fit raised, and for another column a family with a smaller KS statistic
\* than a later successful candidate.
C18_Witness ==
    /\ Fitted
    /\ ret.args[1] = <<None>>
    /\ \E c \in DOMAIN data :
          /\ FitOutcome(c, "norm").raises = "fit"
          /\ distributions[c].distribution = "uniform"
    /\ \E c \in DOMAIN data :
          /\ distributions[c].distribution = "norm"
          /\ \E f \in Successful(c) :
                RLt(distributions[c].ks_statistic, FitOutcome(c, f).ks)

\* C19: a fit in which no candidate family fits a variable still records the
\* variable, without family and parameters, with its empirical mean, std and
\* range; and generate_samples draws the column of a family-less record from
\* normal(mean * multiplier, std).
C19_FamilylessRecord ==
    /\ (Fitted /\ KnownCandidates) =>
          \A c \in DOMAIN data :
              Successful(c) = {} =>
                 /\ c \in DOMAIN distributions
                 /\ distributions[c].distribution = None
                 /\ distributions[c].params = <<>>
                 /\ distributions[c].mean = Mean(DropNa(data[c]))
                 /\ distributions[c].std = Std(DropNa(data[c]))
                 /\ distributions[c].data_range =
                       <<MinSeq(DropNa(data[c])), MaxSeq(DropNa(data[c]))>>
    /\ Sampled =>
          \A c \in DOMAIN distributions :
              distributions[c].distribution = None =>
                 ret.value.values[c] =
                    RandomNormal(RMul(distributions[c].mean,
                                      Completed(ret.args[2])[c]),
                                 distributions[c].std, ret.args[1],
                                 DrawnAt(c, ret.args[1], ret.rng0))

\* A family-less column was drawn under a multiplier other than 1.
C19_Witness ==
    /\ Sampled
    /\ ret.args[1] = MaxN
    /\ \E c \in DOMAIN distributions :
          /\ distributions[c].distribution = None
          /\ distributions[c].params = <<>>
          /\ Completed(ret.args[2])[c] # R(1)
          /\ IsFinite(distributions[c].std)
          /\ \E j \in 1..MaxN :
                ret.value.values[c][j] #
                   RMul(distributions[c].mean, Completed(ret.args[2])[c])

\* The draw of n values from the family of a record, under multiplier k, from
\* generator state g, when the draw does not fail.
FamilyDraw(rec, k, n, g) ==
    CASE rec.distribution = "norm" ->
            RandomNormal(RMul(rec.params[1], k), rec.params[2], n, g)
      [] rec.distribution = "lognorm" -> Scale(LognormRvs(rec.params, n, g), k)
      [] rec.distribution = "gamma" -> Scale(GammaRvs(rec.params, n, g), k)
      [] rec.distribution = "beta" ->
            AsSeq([i \in 1..n |->
                RMul(RAdd(RMul(BetaRvs(rec.params, n, g)[i],
                               RSub(rec.data_range[2], rec.data_range[1])),
                          rec.data_range[1]), k)])
      [] rec.distribution = "uniform" ->
            RandomUniform(RMul(rec.params[1], k), RMul(rec.params[2], k), n, g)

\* C20: generate_samples on fitted distributions returns whether or not a
\* draw fails; the column of a variable whose draw failed is the fallback
\* draw normal(mean * multiplier, std), and the column of every variable
\* whose draw did not fail is the draw from its own family.
C20_FailureIsLocal ==
    /\ (ret.op = "generate_samples" /\ DOMAIN distributions # {})
          => ret.status = "ok"
    /\ Sampled =>
          \A c \in DOMAIN distributions :
              /\ RvsRaises(distributions[c].distribution,
                           DrawnAt(c, ret.args[1], ret.rng0)) =>
                    ret.value.values[c] =
                       RandomNormal(RMul(distributions[c].mean,
                                         Completed(ret.args[2])[c]),
                                    distributions[c].std, ret.args[1],
                                    DrawnAt(c, ret.args[1], ret.rng0))
              /\ ~FellBack(c, ret.args[1], ret.rng0) =>
                    ret.value.values[c] =
                       FamilyDraw(distributions[c], Completed(ret.args[2])[c],
                                  ret.args[1],
                                  DrawnAt(c, ret.args[1], ret.rng0))

\* A table was returned in which the draw of one variable failed and a
\* variable sampled after it was drawn from its family.
C20_Witness ==
    /\ Sampled
    /\ ret.args[1] = MaxN
    /\ RvsRaises(distributions["Material_Cost"].distribution, ret.rng0)
    /\ IsFinite(ret.value.values["Material_Cost"][1])
    /\ \E c \in DOMAIN distributions \ {"Material_Cost"} :
          /\ ~FellBack(c, ret.args[1], ret.rng0)
          /\ IsFinite(ret.value.values[c][1])

\* The multiplier the last generate_samples call was given for column c, 1
\* when its spec leaves c out.
MultiplierOf(c) == Completed(ret.args[2])[c]

\* Column c of the table the same call returns under multiplier 1 for every
\* variable, from the same generator state.
UnshockedColumn(c) ==
    GenerateSamples(distributions, ret.args[1], AllOnes, ret.rng0).value.values[c]

\* C21: the column of a variable whose family is normal is drawn from
\* normal(fitted_mean * m, fitted_std): each sample under m is the sample
\* under multiplier 1 plus (m - 1) * fitted_mean, and the spread is the
\* fitted std whatever m is.
C21_NormalShiftsMean ==
    Sampled =>
        \A c \in DOMAIN distributions :
            distributions[c].distribution = "norm" =>
               /\ ret.value.values[c] =
                     RandomNormal(RMul(distributions[c].params[1],
                                       MultiplierOf(c)),
                                  distributions[c].params[2], ret.args[1],
                                  DrawnAt(c, ret.args[1], ret.rng0))
               /\ \A i \in 1..ret.args[1] :
                     ret.value.values[c][i] =
                        RAdd(UnshockedColumn(c)[i],
                             RMul(RSub(MultiplierOf(c), R(1)),
                                  distributions[c].params[1]))

\* A normal column was sampled under a multiplier other than 1, with a draw
\* away from its mean.
C21_Witness ==
    /\ Sampled
    /\ ret.args[1] = MaxN
    /\ \E c \in DOMAIN distributions :
          /\ distributions[c].distribution = "norm"
          /\ MultiplierOf(c) \notin {R(1), R(0)}
          /\ distributions[c].params[2] # R(0)
          /\ \E i \in 1..MaxN :
                ret.value.values[c][i] #
                   RMul(distributions[c].params[1], MultiplierOf(c))

\* C22: a column drawn from a log-normal, gamma, beta or uniform family
\* under a multiplier m > 0 is m times the column drawn under multiplier 1
\* from the same generator state, and for beta and uniform every sample
\* lies within [observed_min * m, observed_max * m].
C22_ScaledWithinObservedRange ==
    Sampled =>
        \A c \in DOMAIN distributions :
            (/\ distributions[c].distribution \in
                   {"lognorm", "gamma", "beta", "uniform"}
             /\ ~FellBack(c, ret.args[1], ret.rng0)
             /\ RLt(R(0), MultiplierOf(c)))
            => \A i \in 1..ret.args[1] :
                  /\ ret.value.values[c][i] =
                        RMul(UnshockedColumn(c)[i], MultiplierOf(c))
                  /\ distributions[c].distribution \in {"beta", "uniform"}
                       => /\ RLe(RMul(distributions[c].data_range[1],
                                       MultiplierOf(c)),
                                  ret.value.values[c][i])
                          /\ RLe(ret.value.values[c][i],
                                  RMul(distributions[c].data_range[2],
                                       MultiplierOf(c)))

StatisticsKeys ==
    {"mean", "median", "std", "min", "max", "q25", "q75", "q95", "q99"}

\* C23: in every stored scenario result the statistics map has an entry
\* with the nine statistics for every column of the scenario's sample table
\* and for nothing else, and the risk-metrics map has an entry for exactly
\* the columns named Total_Estimate or Total_Estimate_Calculated that the
\* table has.
C23_StatisticsAndRiskCoverage ==
    \A k \in 1..Len(simulation_results) :
        /\ DOMAIN simulation_results[k].result.statistics =
              Range(simulation_results[k].result.samples.columns)
        /\ \A c \in DOMAIN simulation_results[k].result.statistics :
              DOMAIN simulation_results[k].result.statistics[c] =
                 StatisticsKeys
        /\ DOMAIN simulation_results[k].result.risk_metrics =
              Range(simulation_results[k].result.samples.columns)
                 \cap {"Total_Estimate", "Total_Estimate_Calculated"}

\* Results are stored whose tables have both risk columns beside other
\* columns, and results whose tables have one risk column only.
C23_Witness ==
    /\ Ran
    /\ Len(simulation_results) >= 2
    /\ \A k \in 1..Len(simulation_results) :
          /\ DOMAIN simulation_results[k].result.risk_metrics =
                {"Total_Estimate", "Total_Estimate_Calculated"}
          /\ "Material_Cost" \in
                DOMAIN simulation_results[k].result.statistics
          /\ "Material_Cost" \notin
                DOMAIN simulation_results[k].result.risk_metrics

\* C24: a call of generate_samples, run_simulation, get_summary_statistics
\* or print_risk_analysis leaves the fitted-distribution map and the
\* historical dataset as they were before the call.
C24_SamplerAndReadersOnlyRead ==
    [][ret'.op \in {"generate_samples", "run_simulation",
                    "get_summary_statistics", "print_risk_analysis"}
       => /\ distributions' = distributions
          /\ data' = data]_vars

\* After a fitting pass the sampler has drawn a table from the fitted
\* map.
C24_Witness ==
    /\ Sampled
    /\ ret.args[1] = MaxN
    /\ DOMAIN distributions = Range(numeric_columns)
    /\ calls = MaxCalls

\* The results map the loop of the last run_simulation call has built when
\* its k-th scenario is completed and no later one has been started.
ResultsAfter(k) ==
    RunScenarios(SubSeq(RunSet, 1, k), data, distributions, RunRows,
                 ret.rng0, <<>>).results

\* C25: the entry a scenario has in the results of a run is the one it had
\* when it was completed: its table, statistics and risk metrics are not
\* changed by the scenarios produced after it.
C25_LaterScenariosLeaveEarlier ==
    Ran =>
        \A k \in 1..Len(RunSet) :
            /\ ret.value[k] = ResultsAfter(k)[k]
            /\ simulation_results[k] = ResultsAfter(k)[k]

\* A run of several scenarios whose last table differs from the first.
C25_Witness ==
    /\ Ran
    /\ RunRows = MaxN
    /\ Len(RunSet) >= 2
    /\ simulation_results[1].result.samples #
          simulation_results[Len(RunSet)].result.samples
    /\ simulation_results[1].result.statistics #
          simulation_results[Len(RunSet)].result.statistics

\* C26: every multiplier behind a returned sample table is strictly
\* positive: a spec with a multiplier <= 0 for a fitted variable never
\* yields a table.
C26_MultipliersPositive ==
    Sampled =>
        \A c \in DOMAIN distributions : RLt(R(0), MultiplierOf(c))

\* C27: after a fit over any candidate list, the family recorded for a
\* variable is none, or a known family fitted and tested without an
\* exception on that variable in this pass, recorded with the parameters
\* and the KS statistic computed for it on that variable.
C27_RecordedFamilyWasFitted ==
    Fitted =>
        \A c \in DOMAIN distributions :
            \/ distributions[c].distribution = None
            \/ /\ distributions[c].distribution \in Successful(c)
               /\ distributions[c].ks_statistic =
                     FitOutcome(c, distributions[c].distribution).ks
               /\ distributions[c].params =
                     ParamsOf(distributions[c].distribution, DropNa(data[c]))

\* The scenario names of a results map, in its order.
NamesOf(results) == AsSeq([k \in 1..Len(results) |-> results[k].name])

\* C28: a run_simulation call that returns leaves as stored results the map
\* it returns, whose names are those of the scenario set it ran and no
\* others; a run_simulation call that raises, and every call of another
\* method, leaves the stored results as they were.
C28_StoredResultsAreLatestRun ==
    [][IF ret'.op = "run_simulation" /\ ret'.status = "ok"
       THEN /\ simulation_results' = ret'.value
            /\ NamesOf(simulation_results') =
                  AsSeq([k \in 1..Len(GivenScenarios(ret'.args[2])) |->
                            GivenScenarios(ret'.args[2])[k][1]])
       ELSE simulation_results' = simulation_results]_vars

\* The last of the calls was a run of the one-scenario set, and the stored
\* results hold that scenario only.
C28_Witness ==
    /\ Ran
    /\ calls = MaxCalls
    /\ RunRows = MaxN
    /\ NamesOf(simulation_results) = <<"material_increase_10pct">>

\* The spec without its entries for the names in cols.
Without(scenario_adjustments, cols) ==
    IF scenario_adjustments = NoArg THEN NoArg
    ELSE AsMap([c \in DOMAIN scenario_adjustments \ cols |->
                   scenario_adjustments[c]])

\* The names the last generate_samples call's spec has an entry for.
SpecKeys == IF ret.args[2] = NoArg THEN {} ELSE DOMAIN ret.args[2]

\* C29: on a fitted object generate_samples returns a table whatever names
\* its spec has; the table has no column for a name without a fitted
\* record, and it is the table the call returns without the entries of
\* such names; a Total_Estimate entry changes no column but the sampled
\* Total_Estimate, so the derived total is the same with and without it.
C29_UnfittedEntriesIgnored ==
    (ret.op = "generate_samples" /\ DOMAIN distributions # {}) =>
        /\ ret.status = "ok"
        /\ Range(ret.value.columns) \subseteq DOMAIN distributions \cup {Derived}
        /\ ret.value =
              GenerateSamples(distributions, ret.args[1],
                              Without(ret.args[2],
                                      SpecKeys \ DOMAIN distributions),
                              ret.rng0).value
        /\ \A c \in Range(ret.value.columns) \ {"Total_Estimate"} :
              ret.value.values[c] =
                 GenerateSamples(distributions, ret.args[1],
                                 Without(ret.args[2], {"Total_Estimate"}),
                                 ret.rng0).value.values[c]

\* A table sampled under a spec with an entry for the derived total, which
\* has no fitted record, and an entry for Total_Estimate that changed the
\* sampled Total_Estimate column.
C29_Witness ==
    /\ Sampled
    /\ ret.args[1] = MaxN
    /\ Derived \in SpecKeys \ DOMAIN distributions
    /\ "Total_Estimate" \in SpecKeys \cap DOMAIN distributions
    /\ Derived \in Range(ret.value.columns)
    /\ ret.value.values["Total_Estimate"] # UnshockedColumn("Total_Estimate")

\* The positions, in the candidate list of the last fit, of the candidates
\* fitted to column c without an exception whose KS statistic is the
\* smallest among them.
BestPositions(c) ==
    {i \in 1..Len(GivenDistributions(ret.args[1])) :
        /\ GivenDistributions(ret.args[1])[i] \in Successful(c)
        /\ \A f \in Successful(c) :
              RLe(FitOutcome(c, GivenDistributions(ret.args[1])[i]).ks,
                  FitOutcome(c, f).ks)}

\* C30: after a fit over known candidate families, the family recorded for
\* a column is, among the successfully fitted candidates with the smallest
\* KS statistic, the one that comes first in the candidate list.
C30_TiesKeepFirstCandidate ==
    (Fitted /\ KnownCandidates) =>
        \A c \in DOMAIN distributions :
            Successful(c) # {} =>
               /\ BestPositions(c) # {}
               /\ \A i \in BestPositions(c) :
                     GivenDistributions(ret.args[1])[i] =
                           distributions[c].distribution
                        \/ \E j \in BestPositions(c) : j < i

\* A fit recorded a family for a column on which a later candidate had the
\* same, smallest KS statistic.
C30_Witness ==
    /\ Fitted
    /\ KnownCandidates
    /\ \E c \in DOMAIN distributions :
          \E i, j \in BestPositions(c) :
             /\ i < j
             /\ GivenDistributions(ret.args[1])[i] =
                   distributions[c].distribution

====
